---- MODULE Spec2Model ----
(***************************************************************************)
(* Recurring-job scheduler of insights-backend: the Recurrence Calculator  *)
(* (SchedulerService.calculate*NextRun), the schedule store operations     *)
(* (CreateSchedule, GetDueSchedules, UpdateScheduleNextRun,                *)
(* RecordScheduleRun, DeleteSchedule) and the SchedulerRunner poll loop    *)
(* with its per-schedule goroutines.                                       *)
(*                                                                         *)
(* Instants are Unix seconds (UTC).  A wall time (Go's time.Time with a    *)
(* Location) is a record [t |-> instant, off |-> zone offset in seconds].  *)
(* A time string "HH:MM" is the pair <<HH, MM>> of its numeric fields, a   *)
(* date string "YYYY-MM-DD" the triple <<YYYY, MM, DD>>.                   *)
(***************************************************************************)
EXTENDS Integers, Sequences, FiniteSets, TLC

VARIABLES
    now,        \* the wall clock, time.Now().UTC() in Unix seconds
    lastTick,   \* clock reading of the last ticker firing (NULL before the first)
    schedules,  \* table schedules: sequence of rows, id = index
    runs,       \* table schedule_runs: sequence of rows, id = index
    attempts,   \* executeSchedule goroutines: sequence of records
    submitted,  \* calls made to the injected submitCollection callback
    resp,       \* the last response of the HTTP delete and schedule-form handlers
    created,    \* history: per schedule, the clock reading and next_run_at of its creation
    deleted,    \* history: ids of the schedules whose owner's delete has completed
    calc,       \* one evaluation of calculateNextRunTime (input, output)
    wallet,     \* balance and frozen_amount of the users rows, with the calls that write them
    pollFailedAt \* clock reading of the last ticker firing whose due-query failed (NULL if none)

vars == <<now, lastTick, schedules, runs, attempts, submitted, resp,
          created, deleted, calc, wallet, pollFailedAt>>

\* nil of *time.Time / *uint / *string columns
NULL == -1

-----------------------------------------------------------------------------
(* Calendar arithmetic of package time, for the zones the model uses.      *)

SecondsPerDay == 24 * 60 * 60

\* truncation toward zero, as Go's int(float64) conversion
TruncDiv(a, b) == IF a >= 0 THEN a \div b ELSE -((-a) \div b)

\* days since 1970-01-01 of the proleptic Gregorian date y-m-d (1 <= m <= 12)
DaysFromCivil(y, m, d) ==
    LET yy  == IF m <= 2 THEN y - 1 ELSE y
        era == yy \div 400
        yoe == yy - era * 400
        mp  == IF m > 2 THEN m - 3 ELSE m + 9
        doy == (153 * mp + 2) \div 5 + d - 1
        doe == yoe * 365 + yoe \div 4 - yoe \div 100 + doy
    IN  era * 146097 + doe - 719468

\* the date <<y, m, d>> of a day number
CivilFromDays(z) ==
    LET Yoe(doe) == (doe - doe \div 1460 + doe \div 36524 - doe \div 146096) \div 365
        Doy(doe, yoe) == doe - (365 * yoe + yoe \div 4 - yoe \div 100)
        FromMp(era, yoe, doy, mp) ==
            << yoe + era * 400 + (IF mp >= 10 THEN 1 ELSE 0),
               IF mp < 10 THEN mp + 3 ELSE mp - 9,
               doy - (153 * mp + 2) \div 5 + 1 >>
        FromDoy(era, yoe, doy) == FromMp(era, yoe, doy, (5 * doy + 2) \div 153)
        FromYoe(era, doe, yoe) == FromDoy(era, yoe, Doy(doe, yoe))
        FromDoe(era, doe) == FromYoe(era, doe, Yoe(doe))
        FromEra(zz, era) == FromDoe(era, zz - era * 146097)
        FromZ(zz) == FromEra(zz, zz \div 146097)
    IN  FromZ(z + 719468)

\* time.LoadLocation: the zones of the model; "" loads UTC, an unknown name fails
ZoneValid(tz) == tz \in {"", "UTC", "Asia/Kolkata"}

\* offset east of UTC of a loaded zone (neither zone has DST)
ZoneOffset(tz) == IF tz = "Asia/Kolkata" THEN 5 * 3600 + 30 * 60 ELSE 0

\* t.In(loc)
In(t, off) == [t |-> t, off |-> off]

LocalSecs(w) == w.t + w.off

\* t.Date()
DateOf(w) == CivilFromDays(LocalSecs(w) \div SecondsPerDay)

\* seconds since local midnight
SecOfDay(w) == LocalSecs(w) % SecondsPerDay

\* t.Hour(), t.Minute()
HourOf(w) == SecOfDay(w) \div 3600
MinuteOf(w) == (SecOfDay(w) % 3600) \div 60

\* t.Weekday(): 0 = Sunday .. 6 = Saturday (1970-01-01 was a Thursday)
WeekdayOf(w) == ((LocalSecs(w) \div SecondsPerDay) + 4) % 7

\* time.Date(y, m, d, 0, 0, sec, 0, loc): month and day overflow are normalised
GoDate(y, m, d, sec, off) ==
    LET m0 == m - 1
        yn == y + (m0 \div 12)
        mn == (m0 % 12) + 1
    IN  In((DaysFromCivil(yn, mn, 1) + d - 1) * SecondsPerDay + sec - off, off)

\* t.AddDate(0, months, days)
AddDate(w, months, days) ==
    LET Shifted(c) == GoDate(c[1], c[2] + months, c[3] + days, SecOfDay(w), w.off)
    IN  Shifted(DateOf(w))

\* number of days of month m of year y: time.Date(y, m+1, 0, ...).Day()
DaysInMonth(y, m) == DateOf(GoDate(y, m + 1, 0, 0, 0))[3]

\* whether "YYYY-MM-DD" parses: month and day in range for the month
DateParses(dt) ==
    /\ Len(dt) = 3
    /\ dt[2] \in 1..12
    /\ dt[3] >= 1
    /\ dt[3] <= DaysInMonth(dt[1], dt[2])

\* whether "HH:MM" parses under layout "15:04": hour 0..23, minute 0..59
ClockParses(tm) == Len(tm) = 2 /\ tm[1] \in 0..23 /\ tm[2] \in 0..59

\* time.ParseInLocation("2006-01-02 15:04", date + " " + timeStr, loc)
ParseInLocation(dt, tm, off) ==
    IF DateParses(dt) /\ ClockParses(tm)
    THEN [err |-> "", w |-> GoDate(dt[1], dt[2], dt[3], tm[1] * 3600 + tm[2] * 60, off)]
    ELSE [err |-> "parse", w |-> In(0, 0)]

\* parseTimeToMinutes: Sscanf("%d:%d"), no range check
parseTimeToMinutes(tm) == IF Len(tm) = 2 THEN tm[1] * 60 + tm[2] ELSE 0

-----------------------------------------------------------------------------
(* TimezoneService                                                          *)

Ok(t) == [t |-> t, err |-> ""]
Err(e) == [t |-> NULL, err |-> e]

\* ConvertFromUTC(utcTime, userTimezone): utcTime.In(loc); "" means UTC
ConvertFromUTC(t, tz) ==
    IF ZoneValid(tz) THEN [err |-> "", w |-> In(t, ZoneOffset(tz))]
    ELSE [err |-> "invalid timezone", w |-> In(0, 0)]

\* ConvertToUTC(userTime, userTimezone): userTime.In(loc).UTC(), the same instant
ConvertToUTC(w, tz) ==
    IF ZoneValid(tz) THEN Ok(w.t) ELSE Err("invalid timezone")

\* the instant an RFC3339 date_time string denotes: its wall-clock fields read
\* at its own zone suffix (Z or a numeric offset)
Rfc3339Instant(dt) ==
    GoDate(dt.date[1], dt.date[2], dt.date[3],
           dt.clock[1] * 3600 + dt.clock[2] * 60 + dt.clock[3], dt.off).t

\* whether time.Parse(time.RFC3339, s) accepts the string: the date in range for
\* its month, hour 0..23, minute 0..59, second 0..59
Rfc3339Parses(dt) ==
    /\ DateParses(dt.date)
    /\ Len(dt.clock) = 3
    /\ dt.clock[1] \in 0..23
    /\ dt.clock[2] \in 0..59
    /\ dt.clock[3] \in 0..59

\* ParseScheduleTime(scheduleData, userTimezone)
ParseScheduleTime(d, tz) ==
    IF "date_time" \notin d.keys THEN Err("missing or invalid date_time")
    ELSE IF ~Rfc3339Parses(d.date_time) THEN Err("failed to parse date_time")
    ELSE IF d.date_time.z THEN Ok(Rfc3339Instant(d.date_time))
    ELSE ConvertToUTC(In(Rfc3339Instant(d.date_time), d.date_time.off), tz)

-----------------------------------------------------------------------------
(* Recurrence Calculator: SchedulerService.calculate*NextRun                *)

\* line 254: targetTimeUser.Before(userNow)
DailyHasPassed(target, userNow) == target.t < userNow.t

calculateDailyNextRun(tm, tz, nowUTC) ==
    LET Target(w, userNow) ==
            IF DailyHasPassed(w, userNow) THEN In(w.t + 24 * 3600, w.off) ELSE w
        FromParsed(p, userNow) ==
            IF p.err # "" THEN Err(p.err) ELSE ConvertToUTC(Target(p.w, userNow), tz)
        FromUserNow(userNow) ==
            FromParsed(ParseInLocation(DateOf(userNow), tm, ZoneOffset(tz)), userNow)
        FromLoaded(u) == IF u.err # "" THEN Err(u.err) ELSE FromUserNow(u.w)
    IN  FromLoaded(ConvertFromUTC(nowUTC, tz))

\* DaysUntilTarget with the week added only once the minute of the day is past the target
DaysUntilTargetStrict(dayOfWeek, tm, userNow) ==
    LET d == (dayOfWeek - WeekdayOf(userNow) + 7) % 7
    IN  IF d = 0 /\ HourOf(userNow) * 60 + MinuteOf(userNow) > parseTimeToMinutes(tm)
        THEN 7
        ELSE d

\* lines 282-285: days until the target weekday, a full week when it is today
\* and the minute of the day has reached the target
DaysUntilTarget(dayOfWeek, tm, userNow) ==
    LET d == (dayOfWeek - WeekdayOf(userNow) + 7) % 7
    IN  IF d = 0 /\ HourOf(userNow) * 60 + MinuteOf(userNow) >= parseTimeToMinutes(tm)
        THEN 7
        ELSE d

calculateWeeklyNextRun(dayOfWeek, tm, tz, nowUTC) ==
    LET FromParsed(p) == IF p.err # "" THEN Err(p.err) ELSE ConvertToUTC(p.w, tz)
        FromTargetDate(targetDate) ==
            FromParsed(ParseInLocation(DateOf(targetDate), tm, ZoneOffset(tz)))
        FromUserNow(userNow) ==
            FromTargetDate(AddDate(userNow, 0, DaysUntilTarget(dayOfWeek, tm, userNow)))
        FromLoaded(u) == IF u.err # "" THEN Err(u.err) ELSE FromUserNow(u.w)
    IN  FromLoaded(ConvertFromUTC(nowUTC, tz))

\* line 323: int(userNow.Sub(start).Hours() / (24 * 7 * 2))
WeeksSinceStart(userNow, start) == TruncDiv(userNow.t - start.t, 14 * SecondsPerDay)

\* line 330: nextTarget.Before(userNow)
BiweeklyHasPassed(nextTarget, userNow) == nextTarget.t < userNow.t

calculateBiweeklyNextRun(dayOfWeek, tm, tz, startDate, nowUTC) ==
    LET FromParsed(p) == IF p.err # "" THEN Err(p.err) ELSE ConvertToUTC(p.w, tz)
        FromNextTarget(nextTarget) ==
            FromParsed(ParseInLocation(DateOf(nextTarget), tm, ZoneOffset(tz)))
        FromCandidate(cand, userNow) ==
            IF BiweeklyHasPassed(cand, userNow)
            THEN FromNextTarget(AddDate(cand, 0, 14))
            ELSE FromNextTarget(cand)
        FromNextStart(nextStart, userNow) ==
            FromCandidate(AddDate(nextStart, 0, dayOfWeek - WeekdayOf(nextStart)), userNow)
        FromStart(start, userNow) ==
            FromNextStart(AddDate(start, 0, WeeksSinceStart(userNow, start) * 14), userNow)
        FromUserNow(userNow) ==
            IF ~DateParses(startDate) THEN Err("parse")
            ELSE FromStart(GoDate(startDate[1], startDate[2], startDate[3], 0, ZoneOffset(tz)),
                           userNow)
        FromLoaded(u) == IF u.err # "" THEN Err(u.err) ELSE FromUserNow(u.w)
    IN  FromLoaded(ConvertFromUTC(nowUTC, tz))

\* lines 366-373: the day of the target month, clamped to the month's length
TargetDay(dayOfMonth, year, month) ==
    LET Clamp(daysInMonth) ==
            IF dayOfMonth > 28 /\ dayOfMonth > daysInMonth THEN daysInMonth ELSE dayOfMonth
    IN  Clamp(DaysInMonth(year, month))

calculateMonthlyNextRun(dayOfMonth, tm, tz, nowUTC) ==
    LET FromParsed(p) == IF p.err # "" THEN Err(p.err) ELSE ConvertToUTC(p.w, tz)
        FromNextMonth(nextMonth) ==
            FromParsed(ParseInLocation(
                <<nextMonth[1], nextMonth[2], TargetDay(dayOfMonth, nextMonth[1], nextMonth[2])>>,
                tm, ZoneOffset(tz)))
        FromUserNow(userNow) == FromNextMonth(DateOf(AddDate(userNow, 1, 0)))
        FromLoaded(u) == IF u.err # "" THEN Err(u.err) ELSE FromUserNow(u.w)
    IN  FromLoaded(ConvertFromUTC(nowUTC, tz))

\* calculateNextRunTime(scheduleType, scheduleData, userTimezone) at clock reading nowUTC
calculateNextRunTime(scheduleType, d, tz, nowUTC) ==
    CASE scheduleType = "once" ->
            IF ~d.isMap THEN Err("invalid schedule data format")
            ELSE ParseScheduleTime(d, tz)
      [] scheduleType = "daily" ->
            IF ~d.isMap THEN Err("invalid schedule data format")
            ELSE IF "time" \notin d.keys THEN Err("missing or invalid time")
            ELSE calculateDailyNextRun(d.time, tz, nowUTC)
      [] scheduleType = "weekly" ->
            IF ~d.isMap THEN Err("invalid schedule data format")
            ELSE IF "day_of_week" \notin d.keys THEN Err("missing or invalid day_of_week")
            ELSE IF "time" \notin d.keys THEN Err("missing or invalid time")
            ELSE calculateWeeklyNextRun(d.day_of_week, d.time, tz, nowUTC)
      [] scheduleType = "biweekly" ->
            IF ~d.isMap THEN Err("invalid schedule data format")
            ELSE IF "day_of_week" \notin d.keys THEN Err("missing or invalid day_of_week")
            ELSE IF "time" \notin d.keys THEN Err("missing or invalid time")
            ELSE IF "start_date" \notin d.keys THEN Err("missing or invalid start_date")
            ELSE calculateBiweeklyNextRun(d.day_of_week, d.time, tz, d.start_date, nowUTC)
      [] scheduleType = "monthly" ->
            IF ~d.isMap THEN Err("invalid schedule data format")
            ELSE IF "day_of_month" \notin d.keys THEN Err("missing or invalid day_of_month")
            ELSE IF "time" \notin d.keys THEN Err("missing or invalid time")
            ELSE calculateMonthlyNextRun(d.day_of_month, d.time, tz, nowUTC)
      [] OTHER -> Err("unknown schedule type")


-----------------------------------------------------------------------------
(* Bounds and inputs of the model                                           *)

MaxSchedules == 1
MaxAttempts == 2
MaxClockSteps == 2
MaxCalcDays == 14

\* how far one step of the model's clock moves it, in seconds
ClockStep == 5 * 60

\* StartScheduler: time.NewTicker(1 * time.Minute), in seconds
TickInterval == 60

\* the clock reading of the initial state: Monday 2024-01-15 11:25:00 UTC
StartClock == GoDate(2024, 1, 15, 11 * 3600 + 25 * 60, 0).t

Users == {"alice", "bob"}

\* users.timezone of each account; the handler falls back to UTC when it is unset
ProfileTimezone(user) == IF user = "alice" THEN "Asia/Kolkata" ELSE "UTC"

\* rows of the collections and searches tables
Collections == {1, 2}
Searches == {1}

\* collections.name of each row, as its characters: '@' is one character and the
\* other members stand for runs of characters without '@' and '_'; the unique
\* index idx_user_collection_name keeps two rows from having the same name
CollectionName(c) ==
    IF c = 1 THEN <<"Hotels", "@", "NY">> ELSE <<"Hotels", "_", "NY">>

\* schedules.user_id, the email address of the account, as its characters
UserID(user) == <<user, "@", "x.io">>

\* strings.ReplaceAll(s, old, new) for a one-character old
ReplaceAll(s, old, new) == [k \in DOMAIN s |-> IF s[k] = old THEN new ELSE s[k]]

\* CalculateSearchAmountFromJobs of the items of a collection when every website
\* has a row in site_to_price_mapping: the sum of the prices, one per website
SearchAmount(c) == IF c = 1 THEN 20 ELSE 10

\* users.balance and users.frozen_amount of each account at the start
OpeningRows ==
    [u \in Users |-> IF u = "alice" THEN [balance |-> 25, frozen |-> 0]
                                    ELSE [balance |-> 100, frozen |-> 5]]

NoDateTime == [date |-> <<>>, clock |-> <<>>, z |-> TRUE, off |-> 0]

NoData ==
    [isMap |-> TRUE, keys |-> {}, time |-> <<>>, day_of_week |-> 0, day_of_month |-> 0,
     start_date |-> <<>>, date_time |-> NoDateTime, timezone |-> ""]

OnceData(dt, tz) ==
    [NoData EXCEPT !.keys = {"date_time", "timezone"}, !.date_time = dt, !.timezone = tz]
DailyData(tm, tz) ==
    [NoData EXCEPT !.keys = {"time", "timezone"}, !.time = tm, !.timezone = tz]
WeeklyData(dow, tm, tz) ==
    [NoData EXCEPT !.keys = {"day_of_week", "time", "timezone"},
                   !.day_of_week = dow, !.time = tm, !.timezone = tz]
BiweeklyData(dow, tm, sd, tz) ==
    [NoData EXCEPT !.keys = {"day_of_week", "time", "start_date", "timezone"},
                   !.day_of_week = dow, !.time = tm, !.start_date = sd, !.timezone = tz]
MonthlyData(dom, tm, tz) ==
    [NoData EXCEPT !.keys = {"day_of_month", "time", "timezone"},
                   !.day_of_month = dom, !.time = tm, !.timezone = tz]

OnceAtZ == [date |-> <<2024, 1, 15>>, clock |-> <<11, 30, 0>>, z |-> TRUE, off |-> 0]
OnceAtOffset ==
    [date |-> <<2024, 1, 15>>, clock |-> <<17, 0, 0>>, z |-> FALSE, off |-> 5 * 3600 + 30 * 60]

\* the requests POST /schedules is called with: the caller, the body's
\* schedule_type and schedule_data, its collection_id and search_id
Requests ==
    { [user |-> "alice", type |-> "daily", coll |-> 1, search |-> NULL,
       data |-> DailyData(<<17, 0>>, "Asia/Kolkata")],
      [user |-> "bob", type |-> "daily", coll |-> 1, search |-> NULL,
       data |-> DailyData(<<11, 30>>, "Asia/Kolkata")],
      [user |-> "bob", type |-> "daily", coll |-> 1, search |-> NULL,
       data |-> DailyData(<<11, 30>>, "Mars/Phobos")],
      [user |-> "bob", type |-> "weekly", coll |-> NULL, search |-> 1,
       data |-> WeeklyData(1, <<11, 30>>, "UTC")],
      [user |-> "alice", type |-> "biweekly", coll |-> 1, search |-> NULL,
       data |-> BiweeklyData(0, <<9, 0>>, <<2024, 1, 6>>, "Asia/Kolkata")],
      [user |-> "bob", type |-> "monthly", coll |-> NULL, search |-> 1,
       data |-> MonthlyData(31, <<11, 30>>, "UTC")],
      [user |-> "alice", type |-> "once", coll |-> NULL, search |-> NULL,
       data |-> OnceData(OnceAtZ, "UTC")],
      [user |-> "bob", type |-> "once", coll |-> NULL, search |-> NULL,
       data |-> OnceData(OnceAtOffset, "Mars/Phobos")] }

-----------------------------------------------------------------------------
(* Schedule store operations: SchedulerService                              *)

\* json.Marshal then json.Unmarshal of schedule_data: what is read back is a map
StoredData(d) == [d EXCEPT !.isMap = TRUE]

\* SchedulerHandler.validateScheduleRequest: the typed fields that must be set
validateScheduleRequest(type, d) ==
    LET has(k) == k \in d.keys
        tzSet  == has("timezone") /\ d.timezone # ""
    IN  CASE type = "once"     -> has("date_time") /\ tzSet
          [] type = "daily"    -> has("time") /\ tzSet
          [] type = "weekly"   -> d.day_of_week \in 0..6 /\ has("time") /\ tzSet
          [] type = "biweekly" -> d.day_of_week \in 0..6 /\ has("time") /\ tzSet /\ has("start_date")
          [] type = "monthly"  -> d.day_of_month \in 1..31 /\ has("time") /\ tzSet
          [] OTHER -> FALSE

\* POST /schedules: SchedulerHandler.CreateSchedule calling SchedulerService.CreateSchedule
CreateSchedule(user, type, d, coll, search) ==
    LET userTimezone == ProfileTimezone(user)
        Insert(r) ==
            /\ r.err = ""
            /\ schedules' = Append(schedules,
                   [user |-> user, type |-> type, data |-> StoredData(d), active |-> TRUE,
                    next |-> r.t, last |-> NULL, coll |-> coll, search |-> search])
            /\ created' = Append(created, [at |-> now, next |-> r.t, tz |-> userTimezone])
    IN  /\ Len(schedules) < MaxSchedules
        /\ validateScheduleRequest(type, d)
        /\ Insert(calculateNextRunTime(type, d, userTimezone, now))
        /\ UNCHANGED <<now, lastTick, runs, attempts, submitted, resp, deleted, calc, wallet, pollFailedAt>>

\* POST /schedules when the INSERT of SchedulerService.CreateSchedule fails
\* (lines 48-50): no row is stored and the handler answers 500
CreateScheduleInsertFails(user, type, d, coll, search) ==
    /\ Len(schedules) < MaxSchedules
    /\ validateScheduleRequest(type, d)
    /\ calculateNextRunTime(type, d, ProfileTimezone(user), now).err = ""
    /\ resp' = [target |-> "create", code |-> 500, rows |-> 0, ts |-> <<>>, coll |-> coll]
    /\ UNCHANGED <<now, lastTick, schedules, runs, attempts, submitted, created, deleted, calc, wallet, pollFailedAt>>

\* IsDue without the comparison of next_run_at with the clock
IsDueAnyTime(row, nowUTC) == row.active /\ row.next # NULL

\* GetDueSchedules: is_active = true AND next_run_at <= now
IsDue(row, nowUTC) == row.active /\ row.next # NULL /\ row.next <= nowUTC

GetDueSchedules(nowUTC) == {i \in DOMAIN schedules : IsDue(schedules[i], nowUTC)}

\* DeleteMatches without the user_id predicate
DeleteMatchesAnyUser(id, user) == {i \in DOMAIN schedules : i = id}

\* the rows DeleteSchedule's UPDATE matches: id = ? AND user_id = ?
DeleteMatches(id, user) == {i \in DOMAIN schedules : i = id /\ schedules[i].user = user}

\* what a delete request aims at: the caller's own schedule, another user's, or no row
DeleteTarget(id, user) ==
    IF id \notin DOMAIN schedules THEN "missing"
    ELSE IF schedules[id].user = user THEN "own" ELSE "foreign"

\* DELETE /schedules/:id: SchedulerHandler.DeleteSchedule calling SchedulerService.DeleteSchedule
DeleteSchedule(id, user) ==
    LET hit == DeleteMatches(id, user)
    IN  /\ schedules' = [i \in DOMAIN schedules |->
                            IF i \in hit THEN [schedules[i] EXCEPT !.active = FALSE]
                            ELSE schedules[i]]
        /\ resp' = [target |-> DeleteTarget(id, user), code |-> 200,
                    rows |-> Cardinality(hit), ts |-> <<>>, coll |-> NULL]
        /\ deleted' = deleted \cup hit
        /\ UNCHANGED <<now, lastTick, runs, attempts, submitted, created, calc, wallet, pollFailedAt>>

\* RecordScheduleRun that stamps completed_at whatever the status
RecordScheduleRunStampAlways(sid, status, errorMsg) ==
    [sid |-> sid, status |-> status, started |-> now, completed |-> now, err |-> errorMsg]

\* RecordScheduleRun(scheduleID, status, errorMsg): one INSERT into schedule_runs
RecordScheduleRun(sid, status, errorMsg) ==
    [sid |-> sid, status |-> status, started |-> now,
     completed |-> IF status \in {"completed", "failed"} THEN now ELSE NULL,
     err |-> errorMsg]

\* lines 83-89: the zone UpdateScheduleNextRun computes in
StoredTimezone(d) ==
    IF "timezone" \in d.keys /\ d.timezone # "" THEN d.timezone ELSE "UTC"

\* AdvancedRow that clears next_run_at of a once schedule and leaves it active
AdvancedRowStillActive(row, nextRunAt) ==
    IF row.type = "once"
    THEN [row EXCEPT !.next = NULL]
    ELSE [row EXCEPT !.next = nextRunAt]

\* lines 97-103: the row UpdateScheduleNextRun saves, given the row it read
AdvancedRow(row, nextRunAt) ==
    IF row.type = "once"
    THEN [row EXCEPT !.active = FALSE, !.next = NULL]
    ELSE [row EXCEPT !.next = nextRunAt]


-----------------------------------------------------------------------------
(* Scheduler Runner: SchedulerRunner                                        *)

NoRow ==
    [user |-> "", type |-> "", data |-> NoData, active |-> FALSE, next |-> NULL,
     last |-> NULL, coll |-> NULL, search |-> NULL]

\* locals of submitCollectionToQL2 and CheckBalanceAndFreeze before they are set
NoJobName == [name |-> <<>>, user |-> <<>>, ts |-> NULL]
NoUserRow == [balance |-> 0, frozen |-> 0]

\* the goroutine RunScheduler starts for one row of GetDueSchedules
NewAttempt(sid) ==
    [sid |-> sid, user |-> schedules[sid].user, coll |-> schedules[sid].coll,
     search |-> schedules[sid].search, snap |-> schedules[sid].next,
     active |-> schedules[sid].active,
     at |-> now, pc |-> "start", errorMsg |-> "", invoked |-> FALSE,
     row |-> NoRow, advErr |-> "", advAt |-> NULL, steps |-> <<>>, doneAt |-> NULL,
     fault |-> "", jobName |-> NoJobName, amount |-> 0, copy |-> NoUserRow]

RECURSIVE NewAttempts(_)
NewAttempts(due) ==
    IF due = {} THEN <<>>
    ELSE LET sid == CHOOSE i \in due : \A j \in due : i <= j
         IN  <<NewAttempt(sid)>> \o NewAttempts(due \ {sid})

\* RunScheduler, called by StartScheduler on a ticker firing: one goroutine per due
\* row, while no more than limit goroutines have been started
RunSchedulerUpTo(limit) ==
    LET due == GetDueSchedules(now)
    IN  /\ lastTick = NULL \/ now >= lastTick + TickInterval
        /\ Len(attempts) + Cardinality(due) <= limit
        /\ attempts' = attempts \o NewAttempts(due)
        /\ lastTick' = now
        /\ UNCHANGED <<now, schedules, runs, submitted, resp, created, deleted, calc, wallet, pollFailedAt>>

RunScheduler == RunSchedulerUpTo(MaxAttempts)

\* RunScheduler lines 34-37: GetDueSchedules returns an error, nothing is started
RunSchedulerQueryFails ==
    /\ lastTick = NULL \/ now >= lastTick + TickInterval
    /\ lastTick' = now
    /\ pollFailedAt' = now
    /\ UNCHANGED <<now, schedules, runs, attempts, submitted, resp, created, deleted, calc, wallet>>

\* executeSchedule lines 52-57: the run-start record
RecordRunStart(i) ==
    /\ attempts[i].pc = "start"
    /\ runs' = Append(runs, RecordScheduleRun(attempts[i].sid, "running", ""))
    /\ attempts' = [attempts EXCEPT ![i].pc = "job", ![i].steps = Append(@, "run-start")]
    /\ UNCHANGED <<now, lastTick, schedules, submitted, resp, created, deleted, calc, wallet, pollFailedAt>>

\* executeScheduledJob lines 91-103 and 112: the error of payload resolution
\* when every read of the store is answered
ResolveError(a) ==
    IF a.coll # NULL /\ a.coll \notin Collections THEN "failed to load collection"
    ELSE IF a.search # NULL /\ a.search \notin Searches THEN "failed to load search"
    ELSE IF a.coll = NULL /\ a.search = NULL THEN "no collection or search found for schedule"
    ELSE ""

\* what executeScheduledJob can return before CheckBalanceAndFreeze is called, ""
\* standing for no return yet (collection) or for success (search).  db.First
\* of the collection (lines 92-95) fails when the row is not there, and can fail
\* when it is (a failing read, a row deleted since the schedule was created);
\* so db.First of the search (lines 99-102), reached once the collection is
\* loaded or not asked for.  Then, for a collection, the errors of
\* CalculateSearchAmountFromJobs (line 143, a website without a price row) and
\* of the INSERT of the search (line 160); for a search the result of saving it
\* (line 233), submitSearchToQL2 never calling the callback; line 112 when the
\* schedule names neither
JobOutcomes(a) ==
    LET collLoad   == IF a.coll # NULL THEN {"failed to load collection"} ELSE {}
        searchLoad == IF a.search # NULL THEN {"failed to load search"} ELSE {}
        submit     == IF a.coll # NULL
                      THEN {"", "failed to calculate search amount", "failed to create search"}
                      ELSE IF a.search # NULL
                      THEN {"", "failed to save search"}
                      ELSE {"no collection or search found for schedule"}
    IN  IF ResolveError(a) = "failed to load collection" THEN collLoad
        ELSE IF ResolveError(a) = "failed to load search" THEN collLoad \cup searchLoad
        ELSE collLoad \cup searchLoad \cup submit

\* submitCollectionToQL2 lines 134-138: the job name
\* "<name>_scheduled_<user>_<YYYYMMDD_HHMMSS>", '@' replaced by '_' in the
\* collection name and in the user id, the clock read to the second
JobName(a) ==
    [name |-> ReplaceAll(CollectionName(a.coll), "@", "_"),
     user |-> ReplaceAll(UserID(a.user), "@", "_"),
     ts |-> now]

\* AfterJobPc of a goroutine that returns at once when the job failed
AfterJobPcReturnOnError(errorMsg) == IF errorMsg # "" THEN "done" ELSE "end"

\* executeSchedule lines 59-72: where the goroutine goes once executeScheduledJob returned
AfterJobPc(errorMsg) == "end"

\* executeSchedule lines 75-80: executeScheduledJob returns err to goroutine a
JobReturn(a, err) ==
    [a EXCEPT !.pc = AfterJobPc(err),
              !.errorMsg = err,
              !.steps = Append(@, "submit"),
              !.doneAt = IF AfterJobPc(err) = "done" THEN now ELSE @,
              !.jobName = NoJobName,
              !.copy = NoUserRow]

\* executeScheduledJob lines 86-113 with submitSearchToQL2, or with
\* submitCollectionToQL2 lines 116-182: the payload is loaded, the job name is
\* built, the amount is computed and the search row is inserted
ExecuteJob(i) ==
    LET a == attempts[i]
    IN  /\ a.pc = "job"
        /\ \E err \in JobOutcomes(a) :
              attempts' = [attempts EXCEPT ![i] =
                              IF err = "" /\ a.coll # NULL
                              THEN [a EXCEPT !.pc = "freeze",
                                             !.jobName = JobName(a),
                                             !.amount = SearchAmount(a.coll)]
                              ELSE JobReturn(a, err)]
        /\ UNCHANGED <<now, lastTick, schedules, runs, submitted, resp, created, deleted, calc, wallet, pollFailedAt>>

\* CheckBalanceAndFreeze lines 145-160: amount > 0 and user.Balance >= amount
SufficientBalance(amount, balance) == amount > 0 /\ balance >= amount

\* CheckBalanceAndFreeze lines 165-167: the copy of the users row the transaction saves
FrozenRow(copy, amount) ==
    [balance |-> copy.balance - amount, frozen |-> copy.frozen + amount]

\* submitCollectionToQL2 line 186, CheckBalanceAndFreeze lines 145-160: the users
\* row is read outside the transaction and the balance of the copy is compared
\* with the amount; the read can fail; line 188-189 on an error
CheckBalance(i) ==
    LET a == attempts[i]
        row == wallet.rows[a.user]
    IN  /\ a.pc = "freeze"
        /\ \E found \in BOOLEAN :
              attempts' = [attempts EXCEPT ![i] =
                              IF found /\ SufficientBalance(a.amount, row.balance)
                              THEN [a EXCEPT !.pc = "freezeTx", !.copy = row]
                              ELSE JobReturn(a, "failed to freeze amount")]
        /\ UNCHANGED <<now, lastTick, schedules, runs, submitted, resp, created, deleted, calc, wallet, pollFailedAt>>

\* CheckBalanceAndFreeze lines 163-218: the transaction saves every column of
\* the copy read before, with the amount moved from Balance to FrozenAmount, and
\* commits; or one of its statements fails and it is rolled back
FreezeAmount(i) ==
    LET a == attempts[i]
    IN  /\ a.pc = "freezeTx"
        /\ \/ /\ wallet' = [wallet EXCEPT !.rows[a.user] = FrozenRow(a.copy, a.amount)]
              /\ attempts' = [attempts EXCEPT ![i].pc = "callback", ![i].copy = NoUserRow]
           \/ /\ attempts' = [attempts EXCEPT ![i] = JobReturn(a, "failed to freeze amount")]
              /\ UNCHANGED wallet
        /\ UNCHANGED <<now, lastTick, schedules, runs, submitted, resp, created, deleted, calc, pollFailedAt>>

\* submitCollectionToQL2 lines 193-201: the injected callback is called with the
\* job name and returns; on success the goroutine goes on to save the collection
SubmitCollection(i) ==
    LET a == attempts[i]
    IN  /\ a.pc = "callback"
        /\ submitted' = Append(submitted, a.jobName)
        /\ \E ok \in BOOLEAN :
              attempts' = [attempts EXCEPT ![i] =
                              IF ok
                              THEN [a EXCEPT !.pc = "save", !.invoked = TRUE, !.jobName = NoJobName]
                              ELSE JobReturn([a EXCEPT !.invoked = TRUE],
                                             "failed to submit collection to QL2")]
        /\ UNCHANGED <<now, lastTick, schedules, runs, resp, created, deleted, calc, wallet, pollFailedAt>>

\* submitCollectionToQL2 line 203: the result of db.Save(collection) is returned
SaveCollection(i) ==
    LET a == attempts[i]
    IN  /\ a.pc = "save"
        /\ \E err \in {"", "failed to save collection"} :
              attempts' = [attempts EXCEPT ![i] = JobReturn(a, err)]
        /\ UNCHANGED <<now, lastTick, schedules, runs, submitted, resp, created, deleted, calc, wallet, pollFailedAt>>

\* submitCollectionToQL2 line 193: the injected callback is called, after the
\* amount was frozen, and never returns
ExecuteJobHangs(i) ==
    LET a == attempts[i]
    IN  /\ a.pc = "callback"
        /\ attempts' = [attempts EXCEPT ![i].pc = "hung",
                                        ![i].invoked = TRUE,
                                        ![i].jobName = NoJobName,
                                        ![i].steps = Append(@, "submit")]
        /\ submitted' = Append(submitted, a.jobName)
        /\ UNCHANGED <<now, lastTick, schedules, runs, resp, created, deleted, calc, wallet, pollFailedAt>>

\* executeSchedule lines 61-66 (deferred): the terminal record
RecordRunEnd(i) ==
    LET a == attempts[i]
        status == IF a.errorMsg # "" THEN "failed" ELSE "completed"
    IN  /\ a.pc = "end"
        /\ runs' = Append(runs, RecordScheduleRun(a.sid, status, a.errorMsg))
        /\ attempts' = [attempts EXCEPT ![i].pc = "advRead", ![i].steps = Append(@, "run-end")]
        /\ UNCHANGED <<now, lastTick, schedules, submitted, resp, created, deleted, calc, wallet, pollFailedAt>>

\* UpdateScheduleNextRun lines 77-103: read the row, recompute, prepare the row to save
UpdateRead(i) ==
    LET a == attempts[i]
        row == schedules[a.sid]
        Computed(r) ==
            attempts' = [attempts EXCEPT
                ![i].pc = IF r.err # "" THEN "done" ELSE "advSave",
                ![i].advErr = r.err,
                ![i].advAt = now,
                ![i].row = IF r.err # "" THEN @ ELSE AdvancedRow(row, r.t),
                ![i].steps = Append(@, "advance"),
                ![i].doneAt = IF r.err # "" THEN now ELSE @]
    IN  /\ a.pc = "advRead"
        /\ Computed(calculateNextRunTime(row.type, row.data, StoredTimezone(row.data), now))
        /\ UNCHANGED <<now, lastTick, schedules, runs, submitted, resp, created, deleted, calc, wallet, pollFailedAt>>

\* UpdateScheduleNextRun lines 105-109: stamp last_run_at and Save every column of the row
UpdateSave(i) ==
    LET a == attempts[i]
    IN  /\ a.pc = "advSave"
        /\ schedules' = [schedules EXCEPT ![a.sid] = [a.row EXCEPT !.last = now]]
        /\ attempts' = [attempts EXCEPT ![i].pc = "done", ![i].doneAt = now]
        /\ UNCHANGED <<now, lastTick, runs, submitted, resp, created, deleted, calc, wallet, pollFailedAt>>

\* where a goroutine goes on a failed run-start write when it carries on regardless
StartFailurePcCarryOn == "job"

\* executeSchedule lines 54-57: where the goroutine goes when the run-start write failed
StartFailurePc == "done"

\* executeSchedule lines 53-57: RecordScheduleRun(id, "running", nil) returns an error
RecordRunStartFails(i) ==
    /\ attempts[i].pc = "start"
    /\ attempts' = [attempts EXCEPT ![i].pc = StartFailurePc,
                                    ![i].fault = "run-start",
                                    ![i].doneAt = IF StartFailurePc = "done" THEN now ELSE @]
    /\ UNCHANGED <<now, lastTick, schedules, runs, submitted, resp, created, deleted, calc, wallet, pollFailedAt>>

\* executeSchedule lines 61-69 (deferred): the terminal RecordScheduleRun returns
\* an error, which line 66 drops; no row is written and the goroutine goes on
\* to UpdateScheduleNextRun
RecordRunEndFails(i) ==
    /\ attempts[i].pc = "end"
    /\ attempts' = [attempts EXCEPT ![i].pc = "advRead", ![i].fault = "run-end"]
    /\ UNCHANGED <<now, lastTick, schedules, runs, submitted, resp, created, deleted, calc, wallet, pollFailedAt>>

\* UpdateScheduleNextRun lines 78-80: db.First on the schedule returns an error
UpdateReadFails(i) ==
    /\ attempts[i].pc = "advRead"
    /\ attempts' = [attempts EXCEPT ![i].pc = "done",
                                    ![i].fault = "advance-read",
                                    ![i].steps = Append(@, "advance"),
                                    ![i].doneAt = now]
    /\ UNCHANGED <<now, lastTick, schedules, runs, submitted, resp, created, deleted, calc, wallet, pollFailedAt>>

\* the stored row after a failed Save when the failed statement has written the row
SaveFailureRowWritten(stored, row) == row

\* UpdateScheduleNextRun line 109: the stored row after db.Save returned an error
SaveFailureRow(stored, row) == stored

\* UpdateScheduleNextRun lines 105-109: db.Save on the schedule returns an error
UpdateSaveFails(i) ==
    LET a == attempts[i]
    IN  /\ a.pc = "advSave"
        /\ schedules' = [schedules EXCEPT
                            ![a.sid] = SaveFailureRow(@, [a.row EXCEPT !.last = now])]
        /\ attempts' = [attempts EXCEPT ![i].pc = "done",
                                        ![i].fault = "advance-save",
                                        ![i].doneAt = now]
        /\ UNCHANGED <<now, lastTick, runs, submitted, resp, created, deleted, calc, wallet, pollFailedAt>>

\* the wall clock moves on
AdvanceClockUpTo(steps) ==
    /\ now + ClockStep <= StartClock + steps * ClockStep
    /\ now' = now + ClockStep
    /\ UNCHANGED <<lastTick, schedules, runs, attempts, submitted, resp, created, deleted, calc, wallet, pollFailedAt>>

AdvanceClock == AdvanceClockUpTo(MaxClockSteps)

-----------------------------------------------------------------------------
(* The scheduler as a whole                                                 *)

\* no second evaluation yet
NoAgain == [now |-> 0, out |-> Err(""), done |-> FALSE]

NoCalc ==
    [in |-> [type |-> "", data |-> NoData, tz |-> "", now |-> 0], out |-> Err(""), done |-> FALSE,
     again |-> NoAgain, overlap |-> NoAgain]

InitStore ==
    /\ lastTick = NULL
    /\ schedules = <<>>
    /\ runs = <<>>
    /\ attempts = <<>>
    /\ submitted = <<>>
    /\ resp = [target |-> "none", code |-> 0, rows |-> 0, ts |-> <<>>, coll |-> NULL]
    /\ created = <<>>
    /\ deleted = {}

\* the users rows before any freeze, no call of CheckBalanceAndFreeze from
\* outside the Runner
InitWallet == [rows |-> OpeningRows, opening |-> OpeningRows, calls |-> <<>>]

Init ==
    /\ now = StartClock
    /\ InitStore
    /\ calc = NoCalc
    /\ wallet = InitWallet
    /\ pollFailedAt = NULL

Next ==
    \/ \E r \in Requests : CreateSchedule(r.user, r.type, r.data, r.coll, r.search)
    \/ \E id \in DOMAIN schedules : DeleteSchedule(id, schedules[id].user)
    \/ RunScheduler
    \/ \E i \in DOMAIN attempts : RecordRunStart(i)
    \/ \E i \in DOMAIN attempts : ExecuteJob(i)
    \/ \E i \in DOMAIN attempts : CheckBalance(i)
    \/ \E i \in DOMAIN attempts : FreezeAmount(i)
    \/ \E i \in DOMAIN attempts : SubmitCollection(i)
    \/ \E i \in DOMAIN attempts : SaveCollection(i)
    \/ \E i \in DOMAIN attempts : RecordRunEnd(i)
    \/ \E i \in DOMAIN attempts : UpdateRead(i)
    \/ \E i \in DOMAIN attempts : UpdateSave(i)
    \/ AdvanceClock

Spec == Init /\ [][Next]_vars

-----------------------------------------------------------------------------
(* The HTTP operations alone, called by any identity                        *)

\* scheduleTs values "YYYYMMDDHHMI" of the schedule form, as their numeric fields
FormTimestamps == { <<2024, 1, 15, 17, 0>>, <<2024, 1, 16, 9, 30>>, <<2024, 13, 1, 0, 0>> }

\* id of the collection createCollection inserts for the schedule form
FormCollection == 3

\* utcTime.Format(time.RFC3339) of a UTC instant, as the fields of the string
FormatRFC3339(t) ==
    LET Fields(w) == [date |-> DateOf(w), z |-> TRUE, off |-> 0,
                      clock |-> <<HourOf(w), MinuteOf(w), SecOfDay(w) % 60>>]
    IN  Fields(In(t, 0))

\* ParseUserTime(timeStr, userTimezone) of "YYYY-MM-DD HH:MI:00"
ParseUserTime(ts, tz) ==
    LET FromParsed(p) == IF p.err # "" THEN Err("failed to parse time") ELSE Ok(p.w.t)
    IN  IF ~ZoneValid(tz) THEN Err("invalid timezone")
        ELSE FromParsed(ParseInLocation(<<ts[1], ts[2], ts[3]>>, <<ts[4], ts[5]>>, ZoneOffset(tz)))

\* models.OnceScheduleData{DateTime, Timezone}: a struct value, not a map
OnceScheduleData(dt, tz) == [OnceData(dt, tz) EXCEPT !.isMap = FALSE]

\* Server.SaveMultiForm, action "schedule" with a scheduleTs of 12 characters:
\* createCollection, ParseUserTime, then SchedulerService.CreateSchedule
SaveMultiForm(user, ts) ==
    LET userTimezone == ProfileTimezone(user)
        Respond(code) == resp' = [target |-> "schedule-form", code |-> code, rows |-> 0,
                                  ts |-> ts, coll |-> FormCollection]
        Insert(d, r) ==
            IF r.err # ""
            THEN /\ Respond(500)
                 /\ UNCHANGED <<schedules, created>>
            ELSE /\ Len(schedules) < MaxSchedules
                 /\ Respond(200)
                 /\ schedules' = Append(schedules,
                        [user |-> user, type |-> "once", data |-> StoredData(d), active |-> TRUE,
                         next |-> r.t, last |-> NULL, coll |-> FormCollection, search |-> NULL])
                 /\ created' = Append(created, [at |-> now, next |-> r.t, tz |-> userTimezone])
        Create(d) == Insert(d, calculateNextRunTime("once", d, userTimezone, now))
        FromParsed(utcTime) ==
            IF utcTime.err # ""
            THEN /\ Respond(400)
                 /\ UNCHANGED <<schedules, created>>
            ELSE Create(OnceScheduleData(FormatRFC3339(utcTime.t), userTimezone))
    IN  /\ FromParsed(ParseUserTime(ts, userTimezone))
        /\ UNCHANGED <<now, lastTick, runs, attempts, submitted, deleted, calc, wallet, pollFailedAt>>

NextApi ==
    \/ \E r \in Requests : CreateSchedule(r.user, r.type, r.data, r.coll, r.search)
    \/ \E id \in 1..(MaxSchedules + 1), user \in Users : DeleteSchedule(id, user)
    \/ \E user \in Users, ts \in FormTimestamps : SaveMultiForm(user, ts)
    \/ AdvanceClock

SpecApi == Init /\ [][NextApi]_vars

-----------------------------------------------------------------------------
(* Several schedules due at one tick, a callback that can hang, a due-query *)
(* that can fail                                                            *)

MaxPairAttempts == 3
MaxPairClockSteps == 2

\* the requests POST /schedules was called with, in this order: two schedules of
\* one owner on two collections, both due at 11:30 UTC
PairRequests ==
    << [user |-> "bob", type |-> "daily", coll |-> 1, search |-> NULL,
        data |-> DailyData(<<11, 30>>, "UTC")],
       [user |-> "bob", type |-> "once", coll |-> 2, search |-> NULL,
        data |-> OnceData(OnceAtZ, "UTC")] >>

\* the row CreateSchedule stored for request r at the clock reading of the
\* initial state, and the record of its creation
PairRow(r) ==
    [user |-> r.user, type |-> r.type, data |-> StoredData(r.data), active |-> TRUE,
     next |-> calculateNextRunTime(r.type, r.data, ProfileTimezone(r.user), StartClock).t,
     last |-> NULL, coll |-> r.coll, search |-> r.search]

\* the state after both schedules were created
InitPair ==
    /\ now = StartClock
    /\ lastTick = NULL
    /\ schedules = [k \in DOMAIN PairRequests |-> PairRow(PairRequests[k])]
    /\ created = [k \in DOMAIN PairRequests |->
                     [at |-> StartClock, next |-> PairRow(PairRequests[k]).next,
                      tz |-> ProfileTimezone(PairRequests[k].user)]]
    /\ runs = <<>>
    /\ attempts = <<>>
    /\ submitted = <<>>
    /\ resp = [target |-> "none", code |-> 0, rows |-> 0, ts |-> <<>>, coll |-> NULL]
    /\ deleted = {}
    /\ calc = NoCalc
    /\ wallet = InitWallet
    /\ pollFailedAt = NULL

\* what executeScheduledJob returns when the store answers every call of the
\* job without an error: success or the error of the callback
PairErrors == {"", "failed to submit collection to QL2"}

\* goroutine i, were RunScheduler to call executeSchedule without go: it runs
\* once the executions started before it have returned
InTurn(i) == \A j \in 1..(i - 1) : attempts[j].pc = "done"

\* RunScheduler line 42, go sr.executeSchedule(schedule): goroutine i runs
\* whatever the state of the others
Concurrent(i) == TRUE

\* one step of goroutine i that returns
AttemptStep(i) ==
    /\ i \in DOMAIN attempts
    /\ Concurrent(i)
    /\ \/ RecordRunStart(i)
       \/ ExecuteJob(i)
       \/ CheckBalance(i)
       \/ FreezeAmount(i)
       \/ SubmitCollection(i)
       \/ SaveCollection(i)
       \/ RecordRunEnd(i)
       \/ UpdateRead(i)
       \/ UpdateSave(i)

\* StartScheduler lines 264-269: one firing of the ticker
Tick == RunSchedulerUpTo(MaxPairAttempts) \/ RunSchedulerQueryFails

\* goroutine i has returned, or waits in a callback that never returns
Settled(i) == attempts[i].pc \in {"done", "hung"}

NextPair ==
    \/ RunSchedulerUpTo(MaxPairAttempts)
    \/ RunSchedulerQueryFails
    \/ \E i \in 1..MaxPairAttempts : AttemptStep(i) /\ attempts'[i].errorMsg \in PairErrors
    \/ \E i \in DOMAIN attempts :
          /\ Concurrent(i)
          /\ \A j \in DOMAIN attempts : attempts[j].pc # "hung"
          /\ ExecuteJobHangs(i)
    \/ AdvanceClockUpTo(MaxPairClockSteps)

\* ENABLED <<AttemptStep(i)>>_vars: goroutine i is started, may run and has not
\* returned; every position of executeSchedule before its return has a step
Runnable(i) ==
    /\ i \in DOMAIN attempts
    /\ Concurrent(i)
    /\ ~Settled(i)

\* WF_vars(AttemptStep(i)), with the enabling condition written out
FairAttempt(i) == []<>(~Runnable(i)) \/ []<><<AttemptStep(i)>>_vars

\* the Go scheduler runs every runnable goroutine, the store answers every
\* call, the ticker keeps firing and the clock keeps moving
SpecPair ==
    /\ InitPair
    /\ [][NextPair]_vars
    /\ \A i \in 1..MaxPairAttempts : FairAttempt(i)
    /\ WF_vars(Tick)
    /\ WF_vars(AdvanceClockUpTo(MaxPairClockSteps))

-----------------------------------------------------------------------------
(* The Runner with a store whose writes and reads can fail                  *)

\* the requests POST /schedules is called with when the store can fail
FaultRequests ==
    { [user |-> "alice", type |-> "daily", coll |-> 1, search |-> NULL,
       data |-> DailyData(<<17, 0>>, "Asia/Kolkata")],
      [user |-> "bob", type |-> "daily", coll |-> 1, search |-> NULL,
       data |-> DailyData(<<11, 30>>, "Mars/Phobos")],
      [user |-> "bob", type |-> "daily", coll |-> 1, search |-> NULL,
       data |-> DailyData(<<11, 30>>, "UTC")],
      [user |-> "alice", type |-> "once", coll |-> 1, search |-> NULL,
       data |-> OnceData(OnceAtZ, "UTC")] }

NextFault ==
    \/ \E r \in FaultRequests : CreateSchedule(r.user, r.type, r.data, r.coll, r.search)
    \/ \E r \in FaultRequests :
          CreateScheduleInsertFails(r.user, r.type, r.data, r.coll, r.search)
    \/ RunScheduler
    \/ RunSchedulerQueryFails
    \/ \E i \in DOMAIN attempts : RecordRunStart(i)
    \/ \E i \in DOMAIN attempts : RecordRunStartFails(i)
    \/ \E i \in DOMAIN attempts : ExecuteJob(i)
    \/ \E i \in DOMAIN attempts : CheckBalance(i)
    \/ \E i \in DOMAIN attempts : FreezeAmount(i)
    \/ \E i \in DOMAIN attempts : SubmitCollection(i)
    \/ \E i \in DOMAIN attempts : SaveCollection(i)
    \/ \E i \in DOMAIN attempts : RecordRunEnd(i)
    \/ \E i \in DOMAIN attempts : RecordRunEndFails(i)
    \/ \E i \in DOMAIN attempts : UpdateRead(i)
    \/ \E i \in DOMAIN attempts : UpdateReadFails(i)
    \/ \E i \in DOMAIN attempts : UpdateSave(i)
    \/ \E i \in DOMAIN attempts : UpdateSaveFails(i)
    \/ AdvanceClock

SpecFault == Init /\ [][NextFault]_vars

-----------------------------------------------------------------------------
(* The users row under concurrent callers: CheckBalanceAndFreeze and the    *)
(* other functions that save it                                             *)

MaxFreezeCalls == 2
MaxWalletCalls == 3

\* users.balance and users.frozen_amount before the first call
OpeningBalances == {25, 100}
OpeningFrozen == {0, 5}

\* the amounts CalculateSearchAmountFromJobs gives the calls
FreezeAmounts == {10, 20, 30}

\* req.Amount of POST /wallet/add-money
TopUpAmounts == {50}

InitFreeze ==
    /\ now = StartClock
    /\ InitStore
    /\ calc = NoCalc
    /\ pollFailedAt = NULL
    /\ \E b \in OpeningBalances, f \in OpeningFrozen :
          LET rows == [OpeningRows EXCEPT !["alice"] = [balance |-> b, frozen |-> f]]
          IN  wallet = [rows |-> rows, opening |-> rows, calls |-> <<>>]

\* a caller that is about to read the users row of user
NewCall(user, kind, amount, deducted, of) ==
    [user |-> user, kind |-> kind, amount |-> amount, deducted |-> deducted, of |-> of,
     pc |-> "read", copy |-> NoUserRow, settled |-> FALSE]

EnterCall(call) ==
    /\ Len(wallet.calls) < MaxWalletCalls
    /\ wallet' = [wallet EXCEPT !.calls = Append(@, call)]
    /\ UNCHANGED <<now, lastTick, schedules, runs, attempts, submitted, resp, created, deleted, calc, pollFailedAt>>

\* submitCollectionToQL2 line 186: one goroutine enters CheckBalanceAndFreeze
FreezeCall(user, amount) ==
    /\ Cardinality({c \in DOMAIN wallet.calls : wallet.calls[c].kind = "freeze"}) < MaxFreezeCalls
    /\ EnterCall(NewCall(user, "freeze", amount, 0, 0))

\* POST /wallet/add-money: Server.AddMoneyToWallet is entered
AddMoneyCall(user, amount) == EnterCall(NewCall(user, "add", amount, 0, 0))

\* the totals CalculateDeductedAmount reads from run_billing_summary: nothing
\* billed, a part of the frozen amounts, more than any frozen amount
DeductedAmounts == {0, 5, 40}

\* ProcessSearchCompletion is entered for the search of freeze call c, whose
\* frozen_amount is still set (line 278), and CalculateDeductedAmount returns
\* deducted (line 290)
CompletionCall(c, deducted) ==
    /\ wallet.calls[c].kind = "freeze"
    /\ wallet.calls[c].pc = "ok"
    /\ ~wallet.calls[c].settled
    /\ EnterCall(NewCall(wallet.calls[c].user, "complete", wallet.calls[c].amount,
                         deducted, c))

\* ProcessSearchFailure is entered for the search of freeze call c, whose
\* frozen_amount is still set (line 413)
FailureCall(c) ==
    /\ wallet.calls[c].kind = "freeze"
    /\ wallet.calls[c].pc = "ok"
    /\ ~wallet.calls[c].settled
    /\ EnterCall(NewCall(wallet.calls[c].user, "refund", wallet.calls[c].amount, 0, c))

\* VerifyEmail, Login, Logout, UpdateTimezone or the admin's user update is
\* entered: a handler that saves the users row for another column
ProfileCall(user) == EnterCall(NewCall(user, "profile", 0, 0, 0))

\* CheckBalanceAndFreeze lines 145-160: the user row is read outside the
\* transaction and the balance in the copy is compared with the amount; the
\* read can fail (lines 151-153), and the call returns the error at once
FreezeRead(c) ==
    LET call == wallet.calls[c]
        row == wallet.rows[call.user]
    IN  /\ call.kind = "freeze"
        /\ call.pc = "read"
        /\ \E found \in BOOLEAN :
              wallet' = [wallet EXCEPT
                            !.calls[c].pc =
                                IF found /\ SufficientBalance(call.amount, row.balance)
                                THEN "save" ELSE "failed",
                            !.calls[c].copy =
                                IF found /\ SufficientBalance(call.amount, row.balance)
                                THEN row ELSE NoUserRow]
        /\ UNCHANGED <<now, lastTick, schedules, runs, attempts, submitted, resp, created, deleted, calc, pollFailedAt>>

\* CheckBalanceAndFreeze lines 163-216: the transaction adds the amount to
\* FrozenAmount and takes it from Balance in the copy read before,
\* tx.Save(&user) writes every column of the copy, and the transaction commits
FreezeCommit(c) ==
    LET call == wallet.calls[c]
    IN  /\ call.kind = "freeze"
        /\ call.pc = "save"
        /\ wallet' = [wallet EXCEPT
                         !.rows[call.user] = FrozenRow(call.copy, call.amount),
                         !.calls[c].pc = "ok",
                         !.calls[c].copy = NoUserRow]
        /\ UNCHANGED <<now, lastTick, schedules, runs, attempts, submitted, resp, created, deleted, calc, pollFailedAt>>

\* CheckBalanceAndFreeze lines 175-216: a statement of the transaction or its
\* commit fails, the transaction is rolled back and an error is returned
FreezeRollback(c) ==
    LET call == wallet.calls[c]
    IN  /\ call.kind = "freeze"
        /\ call.pc = "save"
        /\ wallet' = [wallet EXCEPT !.calls[c].pc = "failed", !.calls[c].copy = NoUserRow]
        /\ UNCHANGED <<now, lastTick, schedules, runs, attempts, submitted, resp, created, deleted, calc, pollFailedAt>>

\* the users row as the handler or function holds it: AuthMiddleware's read for
\* AddMoneyToWallet, Logout and UpdateTimezone, db.First in the others
RowRead(c) ==
    LET call == wallet.calls[c]
    IN  /\ call.kind # "freeze"
        /\ call.pc = "read"
        /\ wallet' = [wallet EXCEPT !.calls[c].pc = "save",
                                    !.calls[c].copy = wallet.rows[call.user]]
        /\ UNCHANGED <<now, lastTick, schedules, runs, attempts, submitted, resp, created, deleted, calc, pollFailedAt>>

\* the read of the users row fails and the call ends with nothing written:
\* db.First of ProcessSearchCompletion (lines 302-304) and ProcessSearchFailure
\* (lines 420-422), which return "user not found" before they open their
\* transaction, frozen_amount of the search staying set; db.First of Login and
\* VerifyEmail; AuthMiddleware's read, which answers 401 before
\* AddMoneyToWallet, Logout or UpdateTimezone is entered
RowReadFails(c) ==
    LET call == wallet.calls[c]
    IN  /\ call.kind # "freeze"
        /\ call.pc = "read"
        /\ wallet' = [wallet EXCEPT !.calls[c].pc = "failed"]
        /\ UNCHANGED <<now, lastTick, schedules, runs, attempts, submitted, resp, created, deleted, calc, pollFailedAt>>

\* the row a call saves, from the copy it holds: AddMoneyToWallet line 555,
\* ProcessSearchCompletion lines 318-324, ProcessSearchFailure lines 436-442,
\* and the copy as it is for a handler that changes another column
SavedRow(call) ==
    LET unfrozen == IF call.copy.frozen - call.amount < 0 THEN 0
                    ELSE call.copy.frozen - call.amount
    IN  CASE call.kind = "add" ->
               [balance |-> call.copy.balance + call.amount, frozen |-> call.copy.frozen]
          [] call.kind = "complete" ->
               [balance |-> call.copy.balance + (call.amount - call.deducted),
                frozen |-> unfrozen]
          [] call.kind = "refund" ->
               [balance |-> call.copy.balance + call.amount, frozen |-> unfrozen]
          [] OTHER -> call.copy

\* Save(&user) of the call writes every column of its copy; ProcessSearchCompletion
\* and ProcessSearchFailure then clear frozen_amount of the search and commit
RowSave(c) ==
    LET call == wallet.calls[c]
        Saved(w) == [w EXCEPT !.rows[call.user] = SavedRow(call),
                              !.calls[c].pc = "ok",
                              !.calls[c].copy = NoUserRow]
    IN  /\ call.kind # "freeze"
        /\ call.pc = "save"
        /\ wallet' = IF call.of # 0
                     THEN [Saved(wallet) EXCEPT !.calls[call.of].settled = TRUE]
                     ELSE Saved(wallet)
        /\ UNCHANGED <<now, lastTick, schedules, runs, attempts, submitted, resp, created, deleted, calc, pollFailedAt>>

\* Save(&user) of the call fails, or its transaction is rolled back
RowSaveFails(c) ==
    LET call == wallet.calls[c]
    IN  /\ call.kind # "freeze"
        /\ call.pc = "save"
        /\ wallet' = [wallet EXCEPT !.calls[c].pc = "failed", !.calls[c].copy = NoUserRow]
        /\ UNCHANGED <<now, lastTick, schedules, runs, attempts, submitted, resp, created, deleted, calc, pollFailedAt>>

NextFreeze ==
    \/ \E user \in Users, amount \in FreezeAmounts : FreezeCall(user, amount)
    \/ \E user \in Users, amount \in TopUpAmounts : AddMoneyCall(user, amount)
    \/ \E c \in DOMAIN wallet.calls, deducted \in DeductedAmounts : CompletionCall(c, deducted)
    \/ \E c \in DOMAIN wallet.calls : FailureCall(c)
    \/ \E user \in Users : ProfileCall(user)
    \/ \E c \in DOMAIN wallet.calls : FreezeRead(c)
    \/ \E c \in DOMAIN wallet.calls : FreezeCommit(c)
    \/ \E c \in DOMAIN wallet.calls : FreezeRollback(c)
    \/ \E c \in DOMAIN wallet.calls : RowRead(c)
    \/ \E c \in DOMAIN wallet.calls : RowReadFails(c)
    \/ \E c \in DOMAIN wallet.calls : RowSave(c)
    \/ \E c \in DOMAIN wallet.calls : RowSaveFails(c)

SpecFreeze == InitFreeze /\ [][NextFreeze]_vars

-----------------------------------------------------------------------------
(* The Recurrence Calculator alone: one evaluation per behaviour            *)

\* the first local day the clock readings are taken from: Monday 2024-01-22
CalcFirstDay == DaysFromCivil(2024, 1, 22)

\* seconds after midnight UTC of the clock readings on each day
CalcTimesOfDay ==
    { 0, 3 * 3600 + 30 * 60, 3 * 3600 + 30 * 60 + 30, 9 * 3600, 9 * 3600 + 30, 17 * 3600,
      23 * 3600 + 59 * 60 + 30 }

CalcNows ==
    { (CalcFirstDay + k) * SecondsPerDay + s : k \in 0..(MaxCalcDays - 1), s \in CalcTimesOfDay }

CalcZones == {"UTC", "Asia/Kolkata", "Mars/Phobos"}

CalcTimes == { <<9, 0>>, <<0, 0>> }

CalcStartDates == { <<2023, 12, 31>>, <<2024, 1, 6>>, <<2024, 1, 22>>, <<2024, 2, 10>> }

OnceLater == [date |-> <<2024, 3, 1>>, clock |-> <<9, 0, 0>>, z |-> TRUE, off |-> 0]

\* "2024-03-01T09:00:60Z": a second that is out of range
OnceLeapSecond == [date |-> <<2024, 3, 1>>, clock |-> <<9, 0, 60>>, z |-> TRUE, off |-> 0]

\* schedule types with their schedule_data, as validateScheduleRequest accepts them
CalcConfigs(tz) ==
    { [type |-> "once", data |-> OnceData(dt, tz)] : dt \in {OnceAtZ, OnceAtOffset, OnceLater, OnceLeapSecond} }
    \cup { [type |-> "daily", data |-> DailyData(tm, tz)] : tm \in CalcTimes }
    \cup { [type |-> "weekly", data |-> WeeklyData(dow, tm, tz)] : dow \in 0..6, tm \in CalcTimes }
    \cup { [type |-> "biweekly", data |-> BiweeklyData(dow, tm, sd, tz)] :
              dow \in 0..6, tm \in CalcTimes, sd \in CalcStartDates }
    \cup { [type |-> "monthly", data |-> MonthlyData(dom, tm, tz)] :
              dom \in {1, 15, 29, 30, 31}, tm \in CalcTimes }

CalcInputs ==
    UNION { { [type |-> c.type, data |-> c.data, tz |-> tz, now |-> n] :
                  c \in CalcConfigs(tz), n \in CalcNows } : tz \in CalcZones }

InitCalc ==
    /\ now = StartClock
    /\ InitStore
    /\ calc \in { [in |-> i, out |-> Err(""), done |-> FALSE, again |-> NoAgain,
                  overlap |-> NoAgain] : i \in CalcInputs }
    /\ wallet = InitWallet
    /\ pollFailedAt = NULL

\* one call calculateNextRunTime(type, data, userTimezone) at clock reading calc.in.now
Compute ==
    /\ ~calc.done
    /\ calc' = [calc EXCEPT
                  !.out = calculateNextRunTime(calc.in.type, calc.in.data, calc.in.tz, calc.in.now),
                  !.done = TRUE]
    /\ UNCHANGED <<now, lastTick, schedules, runs, attempts, submitted, resp, created, deleted, wallet, pollFailedAt>>

\* how long after the instant a schedule fired its next run is recomputed, in seconds
FireDelays == {0, 90}

\* the call calculateNextRunTime makes when the schedule has fired at the next run
\* computed before: the same arguments, the clock at that instant or shortly after
ComputeAgain ==
    /\ calc.done
    /\ calc.out.err = ""
    /\ ~calc.again.done
    /\ ~calc.overlap.done
    /\ \E delay \in FireDelays :
          calc' = [calc EXCEPT
                     !.again = [now  |-> calc.out.t + delay,
                                out  |-> calculateNextRunTime(calc.in.type, calc.in.data, calc.in.tz,
                                                              calc.out.t + delay),
                                done |-> TRUE]]
    /\ UNCHANGED <<now, lastTick, schedules, runs, attempts, submitted, resp, created, deleted, wallet, pollFailedAt>>

\* how long after a first recomputation an overlapping attempt recomputes, in seconds
OverlapDelays == {0, 60}

\* the call calculateNextRunTime makes when a second attempt on the same schedule
\* recomputes before the next run the first one computed has arrived
ComputeOverlap ==
    /\ calc.done
    /\ calc.out.err = ""
    /\ ~calc.again.done
    /\ ~calc.overlap.done
    /\ \E delay \in OverlapDelays :
          /\ calc.in.now + delay < calc.out.t
          /\ calc' = [calc EXCEPT
                        !.overlap = [now  |-> calc.in.now + delay,
                                     out  |-> calculateNextRunTime(calc.in.type, calc.in.data,
                                                                   calc.in.tz, calc.in.now + delay),
                                     done |-> TRUE]]
    /\ UNCHANGED <<now, lastTick, schedules, runs, attempts, submitted, resp, created, deleted, wallet, pollFailedAt>>

NextCalc == Compute \/ ComputeAgain \/ ComputeOverlap

SpecCalc == InitCalc /\ [][NextCalc]_vars

-----------------------------------------------------------------------------
(* Properties                                                               *)

\* seconds after local midnight of a time string
ClockSecs(tm) == tm[1] * 3600 + tm[2] * 60

\* the instant of time-of-day tm on the local day, in the zone at offset off, that contains n
OccurrenceToday(n, tm, off) ==
    ((n + off) \div SecondsPerDay) * SecondsPerDay + ClockSecs(tm) - off

AttemptsOf(sid) == {i \in DOMAIN attempts : attempts[i].sid = sid}

IsPrefix(s, t) == Len(s) <= Len(t) /\ SubSeq(t, 1, Len(s)) = s

\* the order of the steps of one execution attempt
AttemptOrder == <<"run-start", "submit", "run-end", "advance">>

SubmitFailure == "failed to submit collection to QL2"

\* C1: for every schedule type, accepted schedule data and clock reading, the next
\* run the calculator returns is strictly greater than the clock reading used
C1_NextRunAfterNow ==
    (calc.done /\ calc.out.err = "") => calc.out.t > calc.in.now

\* every attempt of schedule sid that is past the call of the callback called it
\* and got an error
CallbackAlwaysFails(sid) ==
    \A j \in AttemptsOf(sid) :
        attempts[j].pc \notin {"start", "job", "freeze", "freezeTx", "callback"} =>
            attempts[j].invoked /\ attempts[j].errorMsg = SubmitFailure

\* C2: a recurring schedule whose submission callback fails on every attempt has,
\* once an attempt has ended, a next_run_at after the end of that attempt, so it
\* is not due at the following tick and does not stay at a past next_run_at
C2_FailureDoesNotWedge ==
    \A i \in DOMAIN attempts :
        LET a == attempts[i]
        IN  (a.pc = "done" /\ schedules[a.sid].type # "once" /\ CallbackAlwaysFails(a.sid))
                => (schedules[a.sid].next # NULL /\ schedules[a.sid].next > a.doneAt)

\* C3: once an execution attempt of a once schedule has completed, with the job
\* succeeded or failed, the schedule has is_active = false and next_run_at = null
\* and is not due at any clock reading
C3_OnceDeactivated ==
    \A i \in DOMAIN attempts :
        LET a == attempts[i]
        IN  (a.pc = "done" /\ schedules[a.sid].type = "once")
                => /\ ~schedules[a.sid].active
                   /\ schedules[a.sid].next = NULL
                   /\ ~IsDue(schedules[a.sid], now)

\* C4: an attempt whose run-start record was written takes its steps in the order
\* run-start, submit, run-end, advance: the advance is invoked once, after the
\* job and after the terminal record, and an attempt has ended only after it,
\* whatever the job returned
C4_AdvanceOnceAsLastStep ==
    \A i \in DOMAIN attempts :
        LET a == attempts[i]
        IN  /\ IsPrefix(a.steps, AttemptOrder)
            /\ a.pc = "done" => a.steps = AttemptOrder

\* an attempt whose job failed has ended after all four steps
C4_Witness ==
    \E i \in DOMAIN attempts :
        /\ attempts[i].pc = "done"
        /\ attempts[i].errorMsg # ""
        /\ attempts[i].steps = AttemptOrder

\* C5 as stated: no two attempts of one schedule for the same next_run_at value
\* are in flight together (the later one started while the earlier one had not
\* finished its advance)
C5_OneExecutionPerOccurrence ==
    \A i, j \in DOMAIN attempts :
        (i < j /\ attempts[i].sid = attempts[j].sid /\ attempts[i].snap = attempts[j].snap)
            => (attempts[i].pc = "done" \/ attempts[j].pc = "done")

\* C5, amended: one tick starts at most one attempt per schedule (two attempts of
\* a schedule come from ticks at different clock readings), and only for a
\* schedule that is active at the tick, which a schedule whose owner's delete
\* had completed before the tick is not, and whose next_run_at is at or before
\* the clock reading of the tick
C5_OneAttemptPerScheduleAndTick ==
    /\ \A i, j \in DOMAIN attempts :
          (i # j /\ attempts[i].sid = attempts[j].sid) => attempts[i].at # attempts[j].at
    /\ \A i \in DOMAIN attempts :
          /\ attempts[i].active
          /\ attempts[i].snap # NULL
          /\ attempts[i].snap <= attempts[i].at

\* two attempts of one schedule for the same next_run_at, started by different
\* ticks, are both in flight; the owner has then deleted the schedule, and a
\* later tick, at which its next_run_at had passed, has started nothing for it
C5_Witness ==
    \E i, j \in DOMAIN attempts :
        /\ i < j
        /\ attempts[i].sid = attempts[j].sid
        /\ attempts[i].snap = attempts[j].snap
        /\ attempts[i].at < attempts[j].at
        /\ attempts[i].pc # "done"
        /\ attempts[j].pc # "done"
        /\ attempts[i].sid \in deleted
        /\ ~schedules[attempts[i].sid].active
        /\ schedules[attempts[i].sid].next # NULL
        /\ schedules[attempts[i].sid].next <= lastTick
        /\ attempts[j].at < lastTick

\* C6: a schedule whose owner's delete has completed has is_active = false in
\* every later state, and so is not due at any later tick, whatever an attempt
\* in flight does
C6_DeletedStaysInactive ==
    \A i \in deleted : ~schedules[i].active /\ ~IsDue(schedules[i], now)

\* C7: a delete called with an identity that does not own the schedule leaves
\* the schedules table as it is and answers without an error, with the same
\* response as a delete of an id that has no row
C7_ForeignDeleteChangesNothing ==
    [][ \A id \in 1..(MaxSchedules + 1), user \in Users :
            (DeleteSchedule(id, user) /\ DeleteTarget(id, user) # "own")
                => /\ schedules' = schedules
                   /\ resp'.code = 200
                   /\ resp'.rows = 0 ]_vars

\* a delete by another identity has answered and the schedule is still active
C7_Witness ==
    /\ resp.target = "foreign"
    /\ resp.code = 200
    /\ \E i \in DOMAIN schedules : schedules[i].active /\ schedules[i].next # NULL

\* number of completed run records of schedule sid
CompletedRuns(sid) ==
    Cardinality({k \in DOMAIN runs : runs[k].sid = sid /\ runs[k].status = "completed"})

\* C8: a daily schedule created before its time of day on the local day gets that
\* day's occurrence as next_run_at; once the clock has passed it and one tick has
\* run the schedule with a succeeding callback, there is exactly one completed
\* run record and next_run_at is the same UTC time on the following day
C8_DailyEndToEnd ==
    \A sid \in DOMAIN schedules :
        LET row == schedules[sid]
            c   == created[sid]
            occ == OccurrenceToday(c.at, row.data.time, ZoneOffset(c.tz))
        IN  (row.type = "daily" /\ ZoneValid(StoredTimezone(row.data)) /\ occ > c.at)
                => /\ c.next = occ
                   /\ \A i \in AttemptsOf(sid) :
                          ( /\ AttemptsOf(sid) = {i}
                            /\ attempts[i].pc = "done"
                            /\ attempts[i].at > occ
                            /\ attempts[i].invoked
                            /\ attempts[i].errorMsg = "" )
                              => /\ CompletedRuns(sid) = 1
                                 /\ row.next = occ + SecondsPerDay

\* C9: the next run of a daily schedule is today's local occurrence when that is
\* strictly after the clock reading, and that occurrence plus 24 hours when it
\* is not, the case of equality included
C9_DailyRollForward ==
    (calc.done /\ calc.in.type = "daily" /\ calc.out.err = "")
        => LET occ == OccurrenceToday(calc.in.now, calc.in.data.time, ZoneOffset(calc.in.tz))
           IN  calc.out.t = IF occ > calc.in.now THEN occ ELSE occ + 24 * 3600

\* the weekday (0 = Sunday) of the local day that contains n
LocalWeekday(n, off) == (((n + off) \div SecondsPerDay) + 4) % 7

\* days from the local current date to the next run of a weekly schedule
WeeklyDaysAhead(n, dow, tm, off) ==
    IF (dow - LocalWeekday(n, off) + 7) % 7 = 0 /\ OccurrenceToday(n, tm, off) <= n
    THEN 7
    ELSE (dow - LocalWeekday(n, off) + 7) % 7

\* C10: the next run of a weekly schedule is at the configured local time on the
\* configured weekday, (target - current + 7) mod 7 days after the local current
\* date, and 7 days after it when that is 0 and today's occurrence has passed
C10_WeeklyNextRun ==
    (calc.done /\ calc.in.type = "weekly" /\ calc.out.err = "")
        => LET off == ZoneOffset(calc.in.tz)
               tm  == calc.in.data.time
               dow == calc.in.data.day_of_week
           IN  /\ calc.out.t = OccurrenceToday(calc.in.now, tm, off)
                                 + WeeklyDaysAhead(calc.in.now, dow, tm, off) * SecondsPerDay
               /\ LocalWeekday(calc.out.t, off) = dow

\* the target weekday is today, today's occurrence is the clock reading itself
\* or before it, and the next run is a week after today's occurrence
C10_Witness ==
    /\ calc.done
    /\ calc.in.type = "weekly"
    /\ calc.out.err = ""
    /\ LocalWeekday(calc.in.now, ZoneOffset(calc.in.tz)) = calc.in.data.day_of_week
    /\ OccurrenceToday(calc.in.now, calc.in.data.time, ZoneOffset(calc.in.tz)) = calc.in.now
    /\ calc.out.t = calc.in.now + 7 * SecondsPerDay

\* the local day number (days since 1970-01-01) of instant n in the zone at offset off
LocalDay(n, off) == (n + off) \div SecondsPerDay

\* a biweekly result is on the configured weekday at the configured time, a whole
\* number of 14-day cycles away from the target weekday of start_date's week
C11_OnDayAndPhase ==
    (calc.done /\ calc.in.type = "biweekly" /\ calc.out.err = "")
        => LET off == ZoneOffset(calc.in.tz)
               d   == calc.in.data
               sd  == DaysFromCivil(d.start_date[1], d.start_date[2], d.start_date[3])
           IN  /\ LocalWeekday(calc.out.t, off) = d.day_of_week
               /\ calc.out.t = OccurrenceToday(calc.out.t, d.time, off)
               /\ (LocalDay(calc.out.t, off) - sd - (d.day_of_week - ((sd + 4) % 7))) % 14 = 0

\* C11: every next run of a biweekly schedule is on the configured day_of_week at
\* the configured time, in the phase start_date fixes, and the next run computed
\* right after the schedule fired at the previous one is exactly 14 days after it
C11_BiweeklyEvery14Days ==
    /\ C11_OnDayAndPhase
    /\ (calc.done /\ calc.in.type = "biweekly" /\ calc.again.done /\ calc.again.out.err = "")
          => calc.again.out.t = calc.out.t + 14 * SecondsPerDay

\* the instant of time-of-day tm on day min(dom, days of the month) of month m of year y
MonthlyOccurrence(y, m, dom, tm, off) ==
    LET day == IF dom > DaysInMonth(y, m) THEN DaysInMonth(y, m) ELSE dom
    IN  DaysFromCivil(y, m, day) * SecondsPerDay + ClockSecs(tm) - off

\* C12: the next run of a monthly schedule is in the calendar month that follows
\* the local month of the clock reading, on day min(day_of_month, days in that
\* month), at the configured time
C12_MonthlyNextMonth ==
    (calc.done /\ calc.in.type = "monthly" /\ calc.out.err = "")
        => LET off == ZoneOffset(calc.in.tz)
               c   == CivilFromDays(LocalDay(calc.in.now, off))
           IN  calc.out.t =
                   MonthlyOccurrence(IF c[2] = 12 THEN c[1] + 1 ELSE c[1],
                                     IF c[2] = 12 THEN 1 ELSE c[2] + 1,
                                     calc.in.data.day_of_month, calc.in.data.time, off)

\* C13: the next run of a once schedule is the instant date_time denotes when it
\* ends in Z, and otherwise the instant at which the wall clock of userTimezone
\* shows date_time's date and time fields
C13_OnceInstant ==
    (calc.done /\ calc.in.type = "once" /\ calc.out.err = "")
        => LET dt == calc.in.data.date_time
           IN  calc.out.t =
                   IF dt.z THEN Rfc3339Instant(dt)
                   ELSE DaysFromCivil(dt.date[1], dt.date[2], dt.date[3]) * SecondsPerDay
                            + dt.clock[1] * 3600 + dt.clock[2] * 60 + dt.clock[3]
                            - ZoneOffset(calc.in.tz)

\* the errors of an invalid schedule: an unresolvable timezone, an unparsable
\* date or time, a missing field, an unknown type
InvalidScheduleErrors ==
    { "invalid timezone", "parse", "failed to parse date_time", "invalid schedule data format",
      "missing or invalid date_time", "missing or invalid time", "missing or invalid day_of_week",
      "missing or invalid day_of_month", "missing or invalid start_date", "unknown schedule type" }

\* C14: for a schedule that creation accepted and stored, the recomputation of
\* the next run made by an execution attempt never fails with an error of an
\* invalid schedule
C14_NoInvalidScheduleAtRunTime ==
    \A i \in DOMAIN attempts : attempts[i].advErr \notin InvalidScheduleErrors

\* the zone of schedule_data, UTC when it is absent or does not resolve
ZoneOrUTC(d) ==
    IF "timezone" \in d.keys /\ d.timezone # "" /\ ZoneValid(d.timezone) THEN d.timezone ELSE "UTC"

\* C15: the advance of an attempt recomputes the next run in the zone stored in
\* schedule_data, and in UTC when that zone is absent or is not a resolvable
\* name: it fails only if the computation in that zone fails, and the
\* next_run_at it prepares for a recurring schedule is the result in that zone
C15_AdvanceZoneWithFallback ==
    \A i \in DOMAIN attempts :
        LET a   == attempts[i]
            row == schedules[a.sid]
        IN  a.advAt # NULL
                => /\ a.advErr = calculateNextRunTime(row.type, row.data, ZoneOrUTC(row.data), a.advAt).err
                   /\ (a.advErr = "" /\ row.type # "once")
                          => a.row.next = calculateNextRunTime(row.type, row.data, ZoneOrUTC(row.data), a.advAt).t

\* the run records of schedule sid
RunsOf(sid) == {k \in DOMAIN runs : runs[k].sid = sid}

\* C16: an execution attempt is one run record, created as running and brought to
\* completed or failed at its end: once every attempt of a schedule has finished,
\* the schedule has as many run records as attempts and none of them is running
C16_OneRunRecordPerAttempt ==
    \A sid \in DOMAIN schedules :
        (\A i \in AttemptsOf(sid) : attempts[i].pc = "done")
            => /\ Cardinality(RunsOf(sid)) = Cardinality(AttemptsOf(sid))
               /\ \A k \in RunsOf(sid) : runs[k].status # "running"

\* C17: every run record has a status among running, completed and failed, a
\* completed_at only when the status is completed or failed, and an error_msg
\* only when the status is failed
C17_RunRecordFields ==
    \A k \in DOMAIN runs :
        /\ runs[k].status \in {"running", "completed", "failed"}
        /\ runs[k].completed # NULL => runs[k].status \in {"completed", "failed"}
        /\ runs[k].err # "" => runs[k].status = "failed"

C17_Witness ==
    /\ \E k \in DOMAIN runs : runs[k].status = "running" /\ runs[k].completed = NULL
    /\ \E k \in DOMAIN runs : runs[k].status = "completed" /\ runs[k].completed # NULL
    /\ \E k \in DOMAIN runs :
           runs[k].status = "failed" /\ runs[k].completed # NULL /\ runs[k].err # ""

\* the terminal run records of schedule sid
TerminalRunsOf(sid) == {k \in RunsOf(sid) : runs[k].status # "running"}

\* the attempt is the only one of its schedule and has written its terminal record
SoleRecordedAttempt(i) ==
    /\ AttemptsOf(attempts[i].sid) = {i}
    /\ \E n \in DOMAIN attempts[i].steps : attempts[i].steps[n] = "run-end"

\* C18: when the submission callback was called in an attempt and returned no
\* error, the terminal run record of the attempt is completed; when it returned
\* an error, the terminal run record is failed and carries the error text
C18_CallbackResultDecidesStatus ==
    \A i \in DOMAIN attempts :
        LET a == attempts[i]
        IN  (a.invoked /\ SoleRecordedAttempt(i))
                => /\ TerminalRunsOf(a.sid) # {}
                   /\ \A k \in TerminalRunsOf(a.sid) :
                          IF a.errorMsg = SubmitFailure
                          THEN runs[k].status = "failed" /\ runs[k].err = SubmitFailure
                          ELSE runs[k].status = "completed"

\* the attempt has run executeScheduledJob
JobReturned(a) == \E n \in DOMAIN a.steps : a.steps[n] = "submit"

\* the errors executeScheduledJob returns when the payload does not resolve
PayloadErrors ==
    {"failed to load collection", "failed to load search",
     "no collection or search found for schedule"}

\* C19: an attempt whose collection or search resolves calls the submission
\* callback before its terminal record is written; no run record is completed
\* without the callback being called
C19_ResolvedPayloadIsSubmitted ==
    \A i \in DOMAIN attempts :
        LET a == attempts[i]
        IN  /\ (JobReturned(a) /\ a.errorMsg \notin PayloadErrors) => a.invoked
            /\ SoleRecordedAttempt(i)
                   => \A k \in TerminalRunsOf(a.sid) :
                          runs[k].status = "completed" => a.invoked

\* C20: when neither the collection nor the search of a due schedule resolves,
\* the attempt calls no submission, a failed run record with an error text is
\* written, and the schedule is still moved to its next occurrence, or retired
\* when it is a once schedule
C20_PayloadMissingStillAdvances ==
    \A i \in DOMAIN attempts :
        LET a   == attempts[i]
            row == schedules[a.sid]
        IN  (a.pc = "done" /\ SoleRecordedAttempt(i) /\ a.errorMsg \in PayloadErrors)
                => /\ ~a.invoked
                   /\ \E k \in TerminalRunsOf(a.sid) :
                          runs[k].status = "failed" /\ runs[k].err # ""
                   /\ IF row.type = "once"
                      THEN ~row.active /\ row.next = NULL
                      ELSE row.next # NULL /\ row.next > a.at

\* C25: whatever the interleaving of creations, owner deletions and attempts,
\* overlapping attempts on one schedule included, every active schedule has a
\* next_run_at, and next_run_at is null only on a schedule that is not active
C25_ActiveHasNextRun ==
    \A sid \in DOMAIN schedules :
        /\ schedules[sid].active => schedules[sid].next # NULL
        /\ schedules[sid].next = NULL => ~schedules[sid].active

\* a once schedule retired by one of two attempts that overlapped on it
C25_Witness ==
    \E sid \in DOMAIN schedules :
        /\ schedules[sid].next = NULL
        /\ ~schedules[sid].active
        /\ \E i, j \in AttemptsOf(sid) :
               /\ i < j
               /\ attempts[j].at <= attempts[i].advAt
               /\ attempts[i].advAt # NULL

\* the run-start records of schedule sid
RunStartsOf(sid) == {k \in RunsOf(sid) : runs[k].status = "running"}

\* C23: once an attempt has finished and its advance has been saved, last_run_at
\* of the schedule is the instant the run of that attempt started, the
\* started_at of its run-start record, and no later instant
C23_LastRunIsRunStart ==
    \A i \in DOMAIN attempts :
        LET a == attempts[i]
        IN  (a.pc = "done" /\ a.advErr = "" /\ AttemptsOf(a.sid) = {i})
                => \A k \in RunStartsOf(a.sid) : schedules[a.sid].last = runs[k].started

\* the attempt has come to the call of CheckBalanceAndFreeze
ReachedFreeze(a) == a.amount > 0

\* C27: a failing balance freeze is only logged: an attempt that came to the
\* freeze still calls the submission callback, and the error of its terminal
\* record is never the error of the freeze
C27_FreezeFailureDoesNotStopSubmission ==
    \A i \in DOMAIN attempts :
        LET a == attempts[i]
        IN  (JobReturned(a) /\ ReachedFreeze(a))
                => /\ a.invoked
                   /\ a.errorMsg # "failed to freeze amount"

\* C26: any two execution attempts pass different job names to the submission
\* callback, attempts dispatched at the same time for one owner included
C26_JobNamesDistinct ==
    \A i, j \in DOMAIN submitted : i # j => submitted[i] # submitted[j]

\* C29: the advance computes the next run of a recurring schedule from the clock
\* and the stored schedule_data alone: computed a second time before the next run
\* computed first has arrived, as by an overlapping attempt, it gives the same
\* next run, so that no occurrence is skipped
C29_RecomputationIsStable ==
    (calc.overlap.done /\ calc.in.type # "once")
        => /\ calc.overlap.out.err = ""
           /\ calc.overlap.out.t = calc.out.t

\* number of run records the attempts in set S have written
RECURSIVE RunsWritten(_)
RunsWritten(S) ==
    IF S = {} THEN 0
    ELSE LET i == CHOOSE k \in S : TRUE
             own == Cardinality({n \in DOMAIN attempts[i].steps :
                                     attempts[i].steps[n] \in {"run-start", "run-end"}})
         IN  own + RunsWritten(S \ {i})

\* the attempt was given up because its run-start write failed
Abandoned(a) == a.fault = "run-start"

\* C21: an attempt whose run-start write fails is given up: it calls no
\* submission and writes no run record, next_run_at, is_active and last_run_at
\* of the schedule stay as they were, and the schedule is still due for the next tick
C21_RunStartFailureAbandons ==
    \A sid \in DOMAIN schedules :
        /\ Cardinality(RunsOf(sid)) = RunsWritten(AttemptsOf(sid))
        /\ \A i \in AttemptsOf(sid) :
               Abandoned(attempts[i])
                   => /\ ~attempts[i].invoked
                      /\ attempts[i].steps = <<>>
                      /\ attempts[i].pc = "done"
        /\ (AttemptsOf(sid) # {} /\ \A i \in AttemptsOf(sid) : Abandoned(attempts[i]))
               => /\ schedules[sid].next = created[sid].next
                  /\ schedules[sid].active
                  /\ schedules[sid].last = NULL
                  /\ sid \in GetDueSchedules(now)

\* an abandoned attempt followed by an attempt the next tick started for the same
\* schedule and the same occurrence
C21_Witness ==
    \E i, j \in DOMAIN attempts :
        /\ i < j
        /\ attempts[i].sid = attempts[j].sid
        /\ Abandoned(attempts[i])
        /\ attempts[j].at > attempts[i].at
        /\ attempts[j].snap = attempts[i].snap
        /\ RunsOf(attempts[i].sid) # {}

\* the advance of the attempt has failed: on its read, its recomputation or its write
AdvanceFailed(a) ==
    a.pc = "done" /\ (a.fault \in {"advance-read", "advance-save"} \/ a.advErr # "")

\* C22: when the advance fails, on its read, its recomputation or its write,
\* next_run_at and is_active of the schedule are unchanged and the schedule is
\* still due; the attempt the next tick starts is for the same occurrence
C22_AdvanceFailureLeavesDue ==
    \A sid \in DOMAIN schedules :
        /\ (AttemptsOf(sid) # {} /\ \A i \in AttemptsOf(sid) : AdvanceFailed(attempts[i]))
               => /\ schedules[sid].next = created[sid].next
                  /\ schedules[sid].active
                  /\ sid \in GetDueSchedules(now)
        /\ \A i, j \in AttemptsOf(sid) :
               (AdvanceFailed(attempts[i]) /\ attempts[i].doneAt <= attempts[j].at /\ i < j)
                   => attempts[j].snap = attempts[i].snap

\* after an attempt that submitted and whose advance failed on its write, the next
\* tick has started a second attempt that recorded a run and submitted again
C22_Witness ==
    \E i, j \in DOMAIN attempts :
        /\ i < j
        /\ attempts[i].sid = attempts[j].sid
        /\ attempts[i].pc = "done"
        /\ attempts[i].fault = "advance-save"
        /\ attempts[i].invoked
        /\ attempts[j].at > attempts[i].doneAt
        /\ attempts[j].invoked
        /\ Cardinality(RunsOf(attempts[i].sid)) >= 3
        /\ Len(submitted) = 2

\* what a call that returned success was to add to balance and to frozen_amount
Effect(call) ==
    CASE call.kind = "freeze"   -> [balance |-> 0 - call.amount, frozen |-> call.amount]
      [] call.kind = "add"      -> [balance |-> call.amount, frozen |-> 0]
      [] call.kind = "complete" -> [balance |-> call.amount - call.deducted,
                                    frozen |-> 0 - call.amount]
      [] call.kind = "refund"   -> [balance |-> call.amount, frozen |-> 0 - call.amount]
      [] OTHER                  -> [balance |-> 0, frozen |-> 0]

\* sum of the effects of the calls in set S
RECURSIVE EffectSum(_)
EffectSum(S) ==
    IF S = {} THEN [balance |-> 0, frozen |-> 0]
    ELSE LET c == CHOOSE k \in S : TRUE
             rest == EffectSum(S \ {c})
         IN  [balance |-> Effect(wallet.calls[c]).balance + rest.balance,
              frozen |-> Effect(wallet.calls[c]).frozen + rest.frozen]

\* the calls on the row of user that returned success
CallsDone(user) ==
    {c \in DOMAIN wallet.calls : wallet.calls[c].user = user /\ wallet.calls[c].pc = "ok"}

\* C28: whatever the interleaving of concurrent freeze calls for one user, once
\* all calls have returned, the balance has gone down and frozen_amount has gone
\* up by exactly the sum of the amounts of the freezes that succeeded, next to
\* what the top-ups, completions and refunds that succeeded have moved
C28_ConcurrentFreezesAddUp ==
    (\A c \in DOMAIN wallet.calls : wallet.calls[c].pc \in {"ok", "failed"})
        => \A user \in Users :
               /\ wallet.rows[user].balance
                      = wallet.opening[user].balance + EffectSum(CallsDone(user)).balance
               /\ wallet.rows[user].frozen
                      = wallet.opening[user].frozen + EffectSum(CallsDone(user)).frozen

\* C30: the schedule action of the form, given a well-formed timestamp of 12
\* digits, answers success and has created an active once schedule linked to the
\* collection it created, whose next_run_at is the timestamp read in the zone of
\* the user and converted to UTC
C30_FormCreatesOnceSchedule ==
    (resp.target = "schedule-form" /\ DateParses(<<resp.ts[1], resp.ts[2], resp.ts[3]>>))
        => /\ resp.code = 200
           /\ \E sid \in DOMAIN schedules :
                  /\ schedules[sid].type = "once"
                  /\ schedules[sid].active
                  /\ schedules[sid].coll = resp.coll
                  /\ schedules[sid].next =
                         GoDate(resp.ts[1], resp.ts[2], resp.ts[3],
                                resp.ts[4] * 3600 + resp.ts[5] * 60,
                                ZoneOffset(created[sid].tz)).t

\* the last reading of the clock when two schedules are due together
PairEndClock == StartClock + MaxPairClockSteps * ClockStep

\* C24: an execution whose submission call never returns or fails keeps no other
\* execution from its terminal run record and its advance, and keeps no later
\* tick from polling: in the end every execution has returned or waits in its
\* own callback, and the ticker has fired at the last clock reading; a tick
\* whose due-query fails starts nothing, and the ticks after it still poll
C24_HungExecutionBlocksNothing ==
    /\ <>[]((\A i \in DOMAIN attempts : Settled(i)) /\ lastTick = PairEndClock)
    /\ [](pollFailedAt # NULL
              => \A i \in DOMAIN attempts : attempts[i].at # pollFailedAt)

\* of two executions started by one tick, one waits in its callback for ever and
\* the other has written its terminal record and advanced its schedule; a later
\* tick has started a third execution
C24_Witness ==
    \E i, j, k \in DOMAIN attempts :
        /\ i # j
        /\ attempts[i].at = attempts[j].at
        /\ attempts[i].sid # attempts[j].sid
        /\ attempts[i].pc = "hung"
        /\ attempts[j].pc = "done"
        /\ attempts[j].steps = AttemptOrder
        /\ attempts[k].at > attempts[i].at
        /\ schedules[attempts[j].sid].last # NULL
        /\ pollFailedAt # NULL
        /\ pollFailedAt < attempts[i].at

====
